---- MODULE Spec2Model ----
(***************************************************************************)
(* The Query Review Workflow of the admin console: the QueryWorkspace      *)
(* component (components/query/workspace.tsx).  The state is the props and *)
(* the useState cells of the component, the collaborator calls that are    *)
(* awaited, and the toasts the handlers emitted.  A handler is a closure   *)
(* of the render it was created in: it reads the currentSqlQuery and the   *)
(* verifiedStatus of that render, also when it runs later (as the onClick  *)
(* of a toast's "Try again" action).                                       *)
(***************************************************************************)
EXTENDS Integers, Sequences, FiniteSets, TLC

\* Bound of the model: the collaborator calls a session starts in total.
MaxCalls == 3

\* Bound of the model with fairness: the calls a session starts in total.
MaxLiveCalls == 2

\* The SQL texts the editor can hold (string, workspace.tsx:61).
SqlTexts == {"SELECT 1", "SELECT 2"}

\* QueryStatus, a closed set of '@/models/api' the component only passes on.
QueryStatuses == {"NOT_VERIFIED", "VERIFIED"}

\* sql_query_result of the Query Record: null, or a table.
NoResult == "null"
SomeResult == "rows"
\* sql_error_message of the Query Record: null, or a message.
NoError == "null"
SomeError == "syntax error"

VARIABLES
  query,                \* the query prop (the Query Record of this render)
  currentSqlQuery,      \* useState(sql_query)
  verifiedStatus,       \* useState<QueryStatus>(status)
  savingQuery,          \* useState(false)
  loadingQueryResults,  \* useState(false)
  pending,              \* the collaborator calls the handlers are awaiting
  toasts,               \* the toasts emitted, in order
  settled               \* the collaborators' answers, in order

vars == <<query, currentSqlQuery, verifiedStatus, savingQuery,
          loadingQueryResults, pending, toasts, settled>>

\* What handleRunQuery reads of the render it is created in.
RunClosure == [currentSqlQuery |-> currentSqlQuery]

\* What handleSaveQuery reads of the render it is created in.
SaveClosure ==
  [currentSqlQuery |-> currentSqlQuery, verifiedStatus |-> verifiedStatus]

\* The number of the next collaborator call (calls are numbered as they start).
NextId == Len(settled) + Cardinality(pending) + 1

\* A run that sends the sql_query prop: onExecuteQuery(sql_query).
onExecuteQueryArgs_fromProp(cl) == [sql_query |-> query.sql_query]

\* The argument handleRunQuery passes to onExecuteQuery.
onExecuteQueryArgs(cl) == [sql_query |-> cl.currentSqlQuery]

\* The argument handleSaveQuery passes to onPatchQuery.
onPatchQueryArgs(cl) ==
  [sql_query |-> cl.currentSqlQuery, query_status |-> cl.verifiedStatus]

TypeOK ==
  /\ query \in [sql_query : SqlTexts, status : QueryStatuses,
                sql_query_result : {NoResult, SomeResult},
                sql_error_message : {NoError, SomeError},
                last_updated : 0..(MaxCalls + 1)]
  /\ currentSqlQuery \in SqlTexts
  /\ verifiedStatus \in QueryStatuses
  /\ savingQuery \in BOOLEAN
  /\ loadingQueryResults \in BOOLEAN
  /\ IsFiniteSet(pending)
  /\ \A c \in pending : c.id \in 1..MaxCalls /\ c.op \in {"execute", "patch"}
  /\ Len(toasts) = Len(settled)

Init ==
  /\ query = [sql_query |-> "SELECT 1", status |-> "NOT_VERIFIED",
              sql_query_result |-> NoResult, sql_error_message |-> NoError,
              last_updated |-> 0]
  /\ currentSqlQuery = query.sql_query
  /\ verifiedStatus = query.status
  /\ savingQuery = FALSE
  /\ loadingQueryResults = FALSE
  /\ pending = {}
  /\ toasts = <<>>
  /\ settled = <<>>

\* An editor that runs the query on every change.
handleSqlChange_autoRun(value) ==
  /\ currentSqlQuery' = value
  /\ loadingQueryResults' = TRUE
  /\ pending' = pending \cup
        {[id |-> NextId, op |-> "execute", closure |-> [currentSqlQuery |-> value],
          sent |-> [sql_query |-> value], origin |-> 0]}
  /\ UNCHANGED <<query, verifiedStatus, savingQuery, toasts, settled>>

\* An editor that aborts the runs awaited when the text changes.
handleSqlChange_abortRuns(value) ==
  /\ currentSqlQuery' = value
  /\ pending' = {c \in pending : c.op # "execute"}
  /\ loadingQueryResults' = FALSE
  /\ UNCHANGED <<query, verifiedStatus, savingQuery, toasts, settled>>

\* handleSqlChange: the editor's onValueChange.
handleSqlChange(value) ==
  /\ currentSqlQuery' = value
  /\ UNCHANGED <<query, verifiedStatus, savingQuery, loadingQueryResults,
                 pending, toasts, settled>>

\* handleVerifyChange: the status select's onValueChange.
handleVerifyChange(status) ==
  /\ verifiedStatus' = status
  /\ UNCHANGED <<query, currentSqlQuery, savingQuery, loadingQueryResults,
                 pending, toasts, settled>>

\* A collaborator call as it is awaited: the handler closure that made it, what
\* it sent, and where the handler was invoked from (0: the button; k: the
\* "Try again" action of toast k).
Call(op, cl, sent, origin) ==
  [id |-> NextId, op |-> op, closure |-> cl, sent |-> sent, origin |-> origin]

\* A run that raises the busy flag of save as well.
handleRunQuery_bothFlags(cl, origin) ==
  /\ loadingQueryResults' = TRUE
  /\ savingQuery' = TRUE
  /\ pending' = pending \cup {Call("execute", cl, onExecuteQueryArgs(cl), origin)}
  /\ UNCHANGED <<query, currentSqlQuery, verifiedStatus, settled>>

\* handleRunQuery, to its await: the handler of closure cl, invoked from origin.
handleRunQuery(cl, origin) ==
  /\ loadingQueryResults' = TRUE
  /\ pending' = pending \cup {Call("execute", cl, onExecuteQueryArgs(cl), origin)}
  /\ UNCHANGED <<query, currentSqlQuery, verifiedStatus, savingQuery, settled>>

\* A save that writes its values into the record before the answer.
handleSaveQuery_optimistic(cl, origin) ==
  /\ savingQuery' = TRUE
  /\ pending' = pending \cup {Call("patch", cl, onPatchQueryArgs(cl), origin)}
  /\ query' = [query EXCEPT !.sql_query = cl.currentSqlQuery,
                            !.status = cl.verifiedStatus]
  /\ UNCHANGED <<currentSqlQuery, verifiedStatus, loadingQueryResults, settled>>

\* handleSaveQuery, to its await.
handleSaveQuery(cl, origin) ==
  /\ savingQuery' = TRUE
  /\ pending' = pending \cup {Call("patch", cl, onPatchQueryArgs(cl), origin)}
  /\ UNCHANGED <<query, currentSqlQuery, verifiedStatus, loadingQueryResults,
                 settled>>

\* The toast of a success: no action.
SuccessToast(title, description) ==
  [variant |-> "success", title |-> title, description |-> description,
   action |-> {}, open |-> TRUE]

\* The toast of a failure: its action is <ToastAction onClick={handler}>, the
\* handler being the closure that failed.
DestructiveToast(description, op, cl) ==
  [variant |-> "destructive", title |-> "Ups! Something went wrong.",
   description |-> description,
   action |-> {[altText |-> "Try again", op |-> op, closure |-> cl]},
   open |-> TRUE]

\* A retry that reads the draft as it is when the action is clicked.
ActionClosure_latest(a) == IF a.op = "execute" THEN RunClosure ELSE SaveClosure

\* The closure a toast action's onClick runs.
ActionClosure(a) == a.closure

\* A run that, once answered, resets the editor to the record's sql_query.
handleRunQuery_then_sync(c) ==
  /\ toasts' = Append(toasts, SuccessToast("Query executed!", ""))
  /\ loadingQueryResults' = FALSE
  /\ pending' = pending \ {c}
  /\ currentSqlQuery' = query.sql_query
  /\ UNCHANGED <<verifiedStatus, savingQuery>>

\* A run that takes an answer carrying a SQL error message for a failure.
handleRunQuery_then_sqlErrorFails(c) ==
  /\ toasts' = Append(toasts,
        IF query'.sql_error_message # NoError
        THEN DestructiveToast("There was a problem with running your query",
                              "execute", c.closure)
        ELSE SuccessToast("Query executed!", ""))
  /\ loadingQueryResults' = FALSE
  /\ pending' = pending \ {c}
  /\ UNCHANGED <<currentSqlQuery, verifiedStatus, savingQuery>>

\* handleRunQuery after its await resolved: the success toast, then finally.
handleRunQuery_then(c) ==
  /\ toasts' = Append(toasts, SuccessToast("Query executed!", ""))
  /\ loadingQueryResults' = FALSE
  /\ pending' = pending \ {c}
  /\ UNCHANGED <<currentSqlQuery, verifiedStatus, savingQuery>>

\* A catch block that discards the draft.
handleRunQuery_catch_revert(c) ==
  /\ toasts' = Append(toasts,
        DestructiveToast("There was a problem with running your query",
                         "execute", c.closure))
  /\ loadingQueryResults' = FALSE
  /\ pending' = pending \ {c}
  /\ currentSqlQuery' = query.sql_query
  /\ verifiedStatus' = query.status
  /\ UNCHANGED savingQuery

\* A run whose success toast comes after the try/catch, not inside the try.
handleRunQuery_catch_thenSuccess(c) ==
  /\ toasts' = Append(Append(toasts,
        DestructiveToast("There was a problem with running your query",
                         "execute", c.closure)),
        SuccessToast("Query executed!", ""))
  /\ loadingQueryResults' = FALSE
  /\ pending' = pending \ {c}
  /\ UNCHANGED <<currentSqlQuery, verifiedStatus, savingQuery>>

\* handleRunQuery after its await rejected: the catch block, then finally.
handleRunQuery_catch(c) ==
  /\ toasts' = Append(toasts,
        DestructiveToast("There was a problem with running your query",
                         "execute", c.closure))
  /\ loadingQueryResults' = FALSE
  /\ pending' = pending \ {c}
  /\ UNCHANGED <<currentSqlQuery, verifiedStatus, savingQuery>>

\* A save that, once answered, takes the sql_query prop of its render back
\* into the editor.
handleSaveQuery_then_snapBack(c) ==
  /\ toasts' = Append(toasts,
        SuccessToast("Saved!",
                     "Your changes over the query were successfully applied"))
  /\ savingQuery' = FALSE
  /\ pending' = pending \ {c}
  /\ currentSqlQuery' = query.sql_query
  /\ UNCHANGED <<verifiedStatus, loadingQueryResults>>

\* handleSaveQuery after its await resolved.
handleSaveQuery_then(c) ==
  /\ toasts' = Append(toasts,
        SuccessToast("Saved!",
                     "Your changes over the query were successfully applied"))
  /\ savingQuery' = FALSE
  /\ pending' = pending \ {c}
  /\ UNCHANGED <<currentSqlQuery, verifiedStatus, loadingQueryResults>>

\* A save whose flag is reset at the end of its try block, not in a finally.
handleSaveQuery_catch_noReset(c) ==
  /\ toasts' = Append(toasts,
        DestructiveToast("There was a problem with saving your query",
                         "patch", c.closure))
  /\ pending' = pending \ {c}
  /\ UNCHANGED <<currentSqlQuery, verifiedStatus, loadingQueryResults,
                 savingQuery>>

\* A save whose failure toast retries the run: onClick={handleRunQuery}.
handleSaveQuery_catch_wrongRetry(c) ==
  /\ toasts' = Append(toasts,
        DestructiveToast("There was a problem with saving your query",
                         "execute",
                         [currentSqlQuery |-> c.closure.currentSqlQuery]))
  /\ savingQuery' = FALSE
  /\ pending' = pending \ {c}
  /\ UNCHANGED <<currentSqlQuery, verifiedStatus, loadingQueryResults>>

\* handleSaveQuery after its await rejected.
handleSaveQuery_catch(c) ==
  /\ toasts' = Append(toasts,
        DestructiveToast("There was a problem with saving your query",
                         "patch", c.closure))
  /\ savingQuery' = FALSE
  /\ pending' = pending \ {c}
  /\ UNCHANGED <<currentSqlQuery, verifiedStatus, loadingQueryResults>>

\* The collaborators' record of an answered call.
Answer(c, outcome) ==
  [id |-> c.id, op |-> c.op, sent |-> c.sent, origin |-> c.origin,
   outcome |-> outcome]

\* The execution collaborator answers: the record gets exactly one of a result
\* and an error message.
onExecuteQuery_resolves(c, result, error) ==
  /\ query' = [query EXCEPT !.sql_query_result = result,
                            !.sql_error_message = error]
  /\ settled' = Append(settled, Answer(c, "resolved"))

\* The persistence collaborator answers: the values it accepted become the
\* record's, with a fresh last_updated.
onPatchQuery_resolves(c) ==
  /\ query' = [query EXCEPT !.sql_query = c.sent.sql_query,
                            !.status = c.sent.query_status,
                            !.last_updated = @ + 1]
  /\ settled' = Append(settled, Answer(c, "resolved"))

\* A collaborator call fails (transport): the record is as it was.
onCall_rejects(c) ==
  /\ query' = query
  /\ settled' = Append(settled, Answer(c, "rejected"))

\* <Button onClick={handleRunQuery} disabled={loadingQueryResults}>
RunButtonEnabled == ~loadingQueryResults

\* <Button onClick={handleSaveQuery} disabled={savingQuery}>
SaveButtonEnabled == ~savingQuery

\* The "Try again" action of toast k, a retry of op, can be clicked: the toast
\* has the action and is open (the click on a toast's action closes the toast).
TryAgainEnabled(k, op) ==
  /\ k \in DOMAIN toasts
  /\ toasts[k].open
  /\ \E a \in toasts[k].action : a.op = op

(***************************************************************************)
(* The results view: what the render shows below the tabs.                 *)
(***************************************************************************)
\* <LoadingQueryResults />: the first branch of the conditional.
ShowsLoading == loadingQueryResults

\* An error banner rendered whenever the record has a message.
ShowsErrorBanner_ungated == query.sql_error_message # NoError

\* The "SQL Error" banner: the second branch.
ShowsErrorBanner == ~loadingQueryResults /\ query.sql_error_message # NoError

\* The third branch: the query_results box and the answer below it.
ShowsQueryResults == ~loadingQueryResults /\ query.sql_error_message = NoError

\* "No Results", the empty state of the query_results box.
ShowsNoResults == ShowsQueryResults /\ query.sql_query_result = NoResult

\* <SqlResultsTable />.
ShowsResultsTable == ShowsQueryResults /\ query.sql_query_result # NoResult

\* The nl_response answer: {sql_query_result && ...}.
ShowsNlResponse == ShowsQueryResults /\ query.sql_query_result # NoResult

(***************************************************************************)
(* The steps: the user's, and the collaborators' answers.                  *)
(***************************************************************************)
EditSql(value) == handleSqlChange(value)

EditStatus(status) == handleVerifyChange(status)

ClickRun ==
  /\ RunButtonEnabled
  /\ NextId <= MaxCalls
  /\ handleRunQuery(RunClosure, 0)
  /\ UNCHANGED toasts

ClickSave ==
  /\ SaveButtonEnabled
  /\ NextId <= MaxCalls
  /\ handleSaveQuery(SaveClosure, 0)
  /\ UNCHANGED toasts

ClickTryAgainRun(k) ==
  /\ TryAgainEnabled(k, "execute")
  /\ NextId <= MaxCalls
  /\ \E a \in toasts[k].action : handleRunQuery(ActionClosure(a), k)
  /\ toasts' = [toasts EXCEPT ![k].open = FALSE]

ClickTryAgainSave(k) ==
  /\ TryAgainEnabled(k, "patch")
  /\ NextId <= MaxCalls
  /\ \E a \in toasts[k].action : handleSaveQuery(ActionClosure(a), k)
  /\ toasts' = [toasts EXCEPT ![k].open = FALSE]

ExecuteResolves(c, result, error) ==
  /\ c \in pending
  /\ c.op = "execute"
  /\ onExecuteQuery_resolves(c, result, error)
  /\ handleRunQuery_then(c)

ExecuteRejects(c) ==
  /\ c \in pending
  /\ c.op = "execute"
  /\ onCall_rejects(c)
  /\ handleRunQuery_catch(c)

PatchResolves(c) ==
  /\ c \in pending
  /\ c.op = "patch"
  /\ onPatchQuery_resolves(c)
  /\ handleSaveQuery_then(c)

PatchRejects(c) ==
  /\ c \in pending
  /\ c.op = "patch"
  /\ onCall_rejects(c)
  /\ handleSaveQuery_catch(c)

Next ==
  \/ \E value \in SqlTexts : EditSql(value)
  \/ \E status \in QueryStatuses : EditStatus(status)
  \/ ClickRun
  \/ ClickSave
  \/ \E k \in DOMAIN toasts : ClickTryAgainRun(k)
  \/ \E k \in DOMAIN toasts : ClickTryAgainSave(k)
  \/ \E c \in pending : ExecuteResolves(c, SomeResult, NoError)
  \/ \E c \in pending : ExecuteResolves(c, NoResult, SomeError)
  \/ \E c \in pending : ExecuteRejects(c)
  \/ \E c \in pending : PatchResolves(c)
  \/ \E c \in pending : PatchRejects(c)

Spec == Init /\ [][Next]_vars

(***************************************************************************)
(* The same steps in a shorter session, with the collaborators bound to    *)
(* answer every call: the awaited promise of call i settles eventually.    *)
(***************************************************************************)
LiveBound == NextId <= MaxLiveCalls

\* The collaborator answers call i, one way or another.
Settle(i) ==
  \E c \in pending :
    /\ c.id = i
    /\ \/ ExecuteResolves(c, SomeResult, NoError)
       \/ ExecuteResolves(c, NoResult, SomeError)
       \/ ExecuteRejects(c)
       \/ PatchResolves(c)
       \/ PatchRejects(c)

LiveNext ==
  \/ \E value \in SqlTexts : EditSql(value)
  \/ \E status \in QueryStatuses : EditStatus(status)
  \/ LiveBound /\ ClickRun
  \/ LiveBound /\ ClickSave
  \/ \E k \in DOMAIN toasts : LiveBound /\ ClickTryAgainRun(k)
  \/ \E k \in DOMAIN toasts : LiveBound /\ ClickTryAgainSave(k)
  \/ \E c \in pending : ExecuteResolves(c, SomeResult, NoError)
  \/ \E c \in pending : ExecuteResolves(c, NoResult, SomeError)
  \/ \E c \in pending : ExecuteRejects(c)
  \/ \E c \in pending : PatchResolves(c)
  \/ \E c \in pending : PatchRejects(c)

LiveSpec ==
  /\ Init
  /\ [][LiveNext]_vars
  /\ \A i \in 1..MaxLiveCalls : WF_vars(Settle(i))

(***************************************************************************)
(* The claims.                                                             *)
(***************************************************************************)
\* The calls awaited of one operation.
InFlight(op) == {c \in pending : c.op = op}

\* The calls answered so far, as a set of positions of the answers' log.
Answered == DOMAIN settled

\* C1: whatever the sequence of Run clicks, retry clicks, edits and answers,
\* at most one call to the execution collaborator is in flight.
C1_AtMostOneExecution == Cardinality(InFlight("execute")) <= 1

\* C2: whatever the sequence of Save clicks, retry clicks, edits and answers,
\* at most one call to the persistence collaborator is in flight.
C2_AtMostOnePersistence == Cardinality(InFlight("patch")) <= 1

\* C3: a call made by the retry action of a failure toast is a call of the
\* operation that failed and sends what the failed attempt sent, whatever the
\* draft holds by then; the failed attempt may itself have been a retry.
C3_RetryFidelity ==
  /\ \A c \in pending :
        c.origin # 0 =>
          /\ c.origin \in Answered
          /\ settled[c.origin].outcome = "rejected"
          /\ settled[c.origin].op = c.op
          /\ settled[c.origin].sent = c.sent
  /\ \A k \in Answered :
        settled[k].origin # 0 =>
          /\ settled[k].origin < k
          /\ settled[settled[k].origin].outcome = "rejected"
          /\ settled[settled[k].origin].op = settled[k].op
          /\ settled[settled[k].origin].sent = settled[k].sent

\* C3's case: a save retried from the toast of a failed retry, in flight with
\* the payload of the first attempt after the SQL text and the status were
\* both edited.
C3_Witness ==
  \E c \in pending :
    /\ c.op = "patch"
    /\ c.origin # 0
    /\ settled[c.origin].origin # 0
    /\ c.sent.sql_query # currentSqlQuery
    /\ c.sent.query_status # verifiedStatus

\* Call c is answered in this step: its handler runs on to its end.
Completes(c) ==
  /\ c \in pending
  /\ c \notin pending'
  /\ Len(settled') = Len(settled) + 1
  /\ settled'[Len(settled')].id = c.id

\* Call c is answered in this step, with the outcome.
CompletesWith(c, outcome) ==
  Completes(c) /\ settled'[Len(settled')].outcome = outcome

\* C4: right after a run or a save completes, resolved or rejected, the busy
\* flag of that operation is false.
C4_FlagReset ==
  [][\A c \in pending :
       Completes(c) =>
         IF c.op = "execute" THEN ~loadingQueryResults' ELSE ~savingQuery']_vars

\* C4's case: a run was rejected and a save resolved, and nothing is awaited.
C4_Witness ==
  /\ pending = {}
  /\ ~loadingQueryResults
  /\ ~savingQuery
  /\ \E i, j \in Answered :
       /\ settled[i].op = "execute" /\ settled[i].outcome = "rejected"
       /\ settled[j].op = "patch" /\ settled[j].outcome = "resolved"

\* C5 as stated: right after a save resolves, currentSqlQuery is the
\* sql_query that save sent.
C5_DraftIsWhatWasSent ==
  [][\A c \in pending :
       (c.op = "patch" /\ CompletesWith(c, "resolved")) =>
         currentSqlQuery' = c.sent.sql_query]_vars

\* C5 as amended: a save that resolves leaves currentSqlQuery as it was right
\* before (so it is the value sent whenever it was before the answer, that
\* is unless it was edited after the save read it); the record's sql_query,
\* old or new, is not copied into it.
C5_NoSnapBack ==
  [][\A c \in pending :
       (c.op = "patch" /\ CompletesWith(c, "resolved")) =>
         /\ currentSqlQuery' = currentSqlQuery
         /\ (currentSqlQuery = c.sent.sql_query =>
               currentSqlQuery' = c.sent.sql_query)
         /\ (currentSqlQuery # query.sql_query =>
               currentSqlQuery' # query.sql_query)
         /\ (currentSqlQuery # query'.sql_query =>
               currentSqlQuery' # query'.sql_query)]_vars

\* C5's case: the save of an edited text has just resolved; the record holds
\* the text sent and so does the editor.
C5_Witness ==
  /\ pending = {}
  /\ settled # <<>>
  /\ settled[Len(settled)].op = "patch"
  /\ settled[Len(settled)].outcome = "resolved"
  /\ settled[Len(settled)].sent.sql_query = "SELECT 2"
  /\ query.sql_query = "SELECT 2"
  /\ currentSqlQuery = "SELECT 2"

\* C6: a rejected run or save leaves currentSqlQuery and verifiedStatus as
\* they were, and leaves the operation's button enabled and its toast's retry
\* action clickable; the other operation's button is as it was.
C6_FailureKeepsDraft ==
  [][\A c \in pending :
       CompletesWith(c, "rejected") =>
         /\ currentSqlQuery' = currentSqlQuery
         /\ verifiedStatus' = verifiedStatus
         /\ (TryAgainEnabled(Len(toasts), c.op))'
         /\ IF c.op = "execute"
            THEN RunButtonEnabled' /\ (SaveButtonEnabled' = SaveButtonEnabled)
            ELSE SaveButtonEnabled' /\ (RunButtonEnabled' = RunButtonEnabled)]_vars

\* C6's case: a save of an edited draft has just been rejected; the draft is
\* still the edited one and the retry is on offer.
C6_Witness ==
  /\ settled # <<>>
  /\ settled[Len(settled)].op = "patch"
  /\ settled[Len(settled)].outcome = "rejected"
  /\ currentSqlQuery = "SELECT 2"
  /\ verifiedStatus = "VERIFIED"
  /\ query.sql_query = "SELECT 1"
  /\ SaveButtonEnabled
  /\ TryAgainEnabled(Len(toasts), "patch")

\* C7: the k-th answer and the k-th toast belong together; a rejected call's
\* toast is a failure toast whose action retries that call's operation, and
\* no failure toast is without an action.
C7_FailureHasRetry ==
  /\ Len(toasts) = Len(settled)
  /\ \A k \in Answered :
       settled[k].outcome = "rejected" =>
         /\ toasts[k].variant = "destructive"
         /\ toasts[k].action # {}
         /\ \A a \in toasts[k].action : a.op = settled[k].op
  /\ \A k \in DOMAIN toasts :
       toasts[k].variant = "destructive" => toasts[k].action # {}

\* C7's case: a run and a save have both been rejected.
C7_Witness ==
  \E i, j \in Answered :
    /\ settled[i].op = "execute" /\ settled[i].outcome = "rejected"
    /\ settled[j].op = "patch" /\ settled[j].outcome = "rejected"

\* C8: a step that changes currentSqlQuery or verifiedStatus changes neither
\* the calls awaited nor a busy flag; a call starts only from an enabled
\* button (origin 0) or from the open retry action of a toast (origin k).
C8_EditStartsNothing ==
  [][/\ (currentSqlQuery' # currentSqlQuery \/ verifiedStatus' # verifiedStatus)
        => /\ pending' = pending
           /\ loadingQueryResults' = loadingQueryResults
           /\ savingQuery' = savingQuery
     /\ \A c \in pending' \ pending :
          /\ currentSqlQuery' = currentSqlQuery
          /\ verifiedStatus' = verifiedStatus
          /\ IF c.origin = 0
             THEN IF c.op = "execute" THEN RunButtonEnabled
                                      ELSE SaveButtonEnabled
             ELSE TryAgainEnabled(c.origin, c.op)]_vars

\* C8's case: both draft values were edited while a save started from the
\* button is awaited.
C8_Witness ==
  \E c \in pending :
    /\ c.op = "patch"
    /\ c.origin = 0
    /\ c.sent.sql_query # currentSqlQuery
    /\ c.sent.query_status # verifiedStatus
    /\ pending = {c}
    /\ savingQuery
    /\ ~loadingQueryResults

\* C9: the draft starts as the record's sql_query and status; a step that
\* changes the record, starts a call or completes one leaves currentSqlQuery
\* and verifiedStatus as they were.
C9_DraftChangesOnlyByEdits ==
  /\ currentSqlQuery = query.sql_query
  /\ verifiedStatus = query.status
  /\ [][(query' # query \/ pending' # pending \/ settled' # settled
          \/ toasts' # toasts)
        => (currentSqlQuery' = currentSqlQuery
            /\ verifiedStatus' = verifiedStatus)]_vars

\* C9's case: a run brought a result and a save was persisted, and the draft
\* differs from the record in both values.
C9_Witness ==
  /\ query.sql_query_result = SomeResult
  /\ query.last_updated > 0
  /\ currentSqlQuery # query.sql_query
  /\ verifiedStatus # query.status

\* C10: no step changes the run side (its calls awaited, its flag) and the
\* save side together; a run in flight does not disable Save, nor a save in
\* flight Run.
C10_Independent ==
  [][/\ ~(/\ (InFlight("execute")' # InFlight("execute")
              \/ loadingQueryResults' # loadingQueryResults)
           /\ (InFlight("patch")' # InFlight("patch")
              \/ savingQuery' # savingQuery))
     /\ (InFlight("execute") # {} /\ InFlight("patch") = {} /\ ~savingQuery
         /\ NextId <= MaxCalls) => ENABLED ClickSave
     /\ (InFlight("patch") # {} /\ InFlight("execute") = {}
         /\ ~loadingQueryResults /\ NextId <= MaxCalls) => ENABLED ClickRun]_vars

\* C10's case: a save was started while a run was in flight, and both are
\* awaited.
C10_Witness ==
  /\ loadingQueryResults
  /\ savingQuery
  /\ \E r \in InFlight("execute") : \E s \in InFlight("patch") : r.id < s.id

\* 1 for a display that is shown, 0 for one that is not.
Shown(b) == IF b THEN 1 ELSE 0

\* C11: the results view shows exactly one of the loading indicator, the
\* error banner and the results box: the indicator when loadingQueryResults,
\* otherwise the banner when the record has an error message, otherwise the
\* box, which holds the table (result not null) or the empty state (null);
\* with the banner or the indicator shown, no table and no answer are shown.
C11_ThreeWayDisplay ==
  /\ Shown(ShowsLoading) + Shown(ShowsErrorBanner) + Shown(ShowsQueryResults) = 1
  /\ ShowsLoading <=> loadingQueryResults
  /\ ~loadingQueryResults =>
       (ShowsErrorBanner <=> query.sql_error_message # NoError)
  /\ ShowsQueryResults =>
       /\ ShowsResultsTable <=> query.sql_query_result # NoResult
       /\ ShowsNoResults <=> query.sql_query_result = NoResult
  /\ (ShowsErrorBanner \/ ShowsLoading) =>
       ~ShowsResultsTable /\ ~ShowsNoResults /\ ~ShowsNlResponse

\* C11's case: a run is awaited while the record still has the error message
\* of the run before: the indicator is shown, not the banner.
C11_Witness ==
  /\ loadingQueryResults
  /\ query.sql_error_message = SomeError
  /\ ShowsLoading
  /\ ~ShowsErrorBanner

\* C12: when the execution collaborator answers with a SQL error message, the
\* run ends on its success path: one toast is added, a success toast without
\* an action, and no call is started by the step.
C12_SqlErrorIsSuccess ==
  [][\A c \in pending :
       (c.op = "execute" /\ CompletesWith(c, "resolved")
        /\ query'.sql_error_message # NoError) =>
         /\ Len(toasts') = Len(toasts) + 1
         /\ \A k \in DOMAIN toasts : toasts'[k] = toasts[k]
         /\ toasts'[Len(toasts')].variant = "success"
         /\ toasts'[Len(toasts')].action = {}
         /\ pending' = pending \ {c}]_vars

\* C12's case: the last answer is a run's, with a SQL error message: the
\* banner is shown and the toast is the success toast.
C12_Witness ==
  /\ pending = {}
  /\ settled # <<>>
  /\ settled[Len(settled)].op = "execute"
  /\ settled[Len(settled)].outcome = "resolved"
  /\ query.sql_error_message = SomeError
  /\ ShowsErrorBanner
  /\ toasts[Len(toasts)].variant = "success"

\* C13: a rejected save leaves the record (sql_query, status, last_updated
\* and the rest) as it was, and the record changes in no step other than a
\* collaborator's successful answer.
C13_FailedSaveKeepsRecord ==
  [][/\ \A c \in pending :
          (c.op = "patch" /\ CompletesWith(c, "rejected")) => query' = query
     /\ query' # query =>
          \E c \in pending : CompletesWith(c, "resolved")]_vars

\* C13's case: the save of an edited draft was rejected and the record is
\* the one the session started with.
C13_Witness ==
  /\ settled # <<>>
  /\ settled[Len(settled)].op = "patch"
  /\ settled[Len(settled)].outcome = "rejected"
  /\ settled[Len(settled)].sent.sql_query = "SELECT 2"
  /\ settled[Len(settled)].sent.query_status = "VERIFIED"
  /\ query.sql_query = "SELECT 1"
  /\ query.status = "NOT_VERIFIED"
  /\ query.last_updated = 0

\* C14: a call started from the Run button sends the currentSqlQuery of that
\* moment, and a call started from the Save button sends that moment's
\* {sql_query: currentSqlQuery, query_status: verifiedStatus}.
C14_SendsCurrentDraft ==
  [][\A c \in pending' \ pending :
       c.origin = 0 =>
         IF c.op = "execute"
         THEN c.sent = [sql_query |-> currentSqlQuery]
         ELSE c.sent = [sql_query |-> currentSqlQuery,
                        query_status |-> verifiedStatus]]_vars

\* C14's case: after edits of both draft values, a run and a save started
\* from the buttons are awaited with the edited values, not the record's.
C14_Witness ==
  /\ query.sql_query = "SELECT 1"
  /\ query.status = "NOT_VERIFIED"
  /\ \E r \in InFlight("execute") :
       r.origin = 0 /\ r.sent.sql_query = "SELECT 2"
  /\ \E s \in InFlight("patch") :
       /\ s.origin = 0
       /\ s.sent.sql_query = "SELECT 2"
       /\ s.sent.query_status = "VERIFIED"

\* C15: a call awaited leaves the calls awaited only by being answered (no
\* step of the user aborts it); with every call answered eventually, every
\* call started is answered, and whenever no call is awaited both busy
\* flags are false.
C15_RunsToCompletion ==
  /\ [][\A c \in pending : c \notin pending' => Completes(c)]_vars
  /\ \A i \in 1..MaxLiveCalls :
       (\E c \in pending : c.id = i) ~> (\E k \in Answered : settled[k].id = i)
  /\ [](pending = {} => ~loadingQueryResults /\ ~savingQuery)

\* C15's case: a run and a save were in flight, the draft was edited, and
\* both calls have been answered, one of them with a failure.
C15_Witness ==
  /\ pending = {}
  /\ Len(settled) = 2
  /\ settled[1].op # settled[2].op
  /\ settled[1].id = 2
  /\ \E k \in Answered : settled[k].outcome = "rejected"
  /\ currentSqlQuery = "SELECT 2"
  /\ ~loadingQueryResults
  /\ ~savingQuery

\* C16: in every state, loadingQueryResults is true when an execution call
\* is awaited and savingQuery is true when a persistence call is awaited.
C16_FlagsReflectInFlight ==
  /\ InFlight("execute") # {} => loadingQueryResults
  /\ InFlight("patch") # {} => savingQuery

\* C17: the toasts are as many as the answers; the k-th toast belongs to the
\* k-th answer: a success toast without an action if and only if the call
\* resolved, a failure toast if and only if it rejected, with the title of
\* the operation answered.
C17_OneToastPerAnswer ==
  /\ Len(toasts) = Len(settled)
  /\ \A k \in Answered :
       /\ toasts[k].variant \in {"success", "destructive"}
       /\ (toasts[k].variant = "success") <=> (settled[k].outcome = "resolved")
       /\ (toasts[k].variant = "destructive") <=> (settled[k].outcome = "rejected")
       /\ toasts[k].variant = "success" =>
            /\ toasts[k].action = {}
            /\ toasts[k].title =
                 (IF settled[k].op = "execute" THEN "Query executed!" ELSE "Saved!")

\* C17's case: three calls were answered, resolved and rejected ones among
\* them, and there are three toasts.
C17_Witness ==
  /\ pending = {}
  /\ Len(settled) = 3
  /\ Len(toasts) = 3
  /\ \E i, j \in Answered :
       /\ settled[i].outcome = "resolved" /\ settled[i].op = "execute"
       /\ settled[j].outcome = "rejected" /\ settled[j].op = "execute"
  /\ \E k \in Answered : settled[k].op = "patch"
====
